---- MODULE Spec2Model ----
(***************************************************************************)
(* A model of the web-app generator front end (App / CodeResult) and of    *)
(* its preview compositor, getPreviewContent.                              *)
(*                                                                         *)
(* Texts (file names, file contents, the composed document) are TLA+       *)
(* strings; the regular expressions and String.replace of the source are   *)
(* computed character by character with Len, SubSeq and \o.                *)
(***************************************************************************)
EXTENDS Integers, Sequences, FiniteSets, TLC

VARIABLES
    appFiles,           \* App: <<>> for null, <<files>> for a FileSet
    isGenerating,       \* App: the generating busy flag
    isRefining,         \* App: the refining busy flag
    error,              \* App: "" for null, else the message shown
    refinementHistory,  \* App: the chat transcript, [role, content] records
    genCalls,           \* generateWebAppCode calls that have not settled
    refCalls,           \* refineWebAppCode calls that have not settled
    sentFiles,          \* the currentFiles refineWebAppCode got in this event
    rendered,           \* the screen and the flags of App's last render
    mounted,            \* CodeResult is mounted (appFiles set, not generating)
    selectedFile,       \* CodeResult: the Active Edit Selection
    activePreviewPage,  \* CodeResult: the Active Preview Page
    effectPending,      \* the effects of the last render have not run yet
    pageBeforeReset,    \* activePreviewPage as the last reset effect found it
    listenerFiles,      \* the files the registered handleMessage closes over
    toHost,             \* messages posted to the host window, not yet delivered
    delivered,          \* the type of the message the host handled last
    uncaught,           \* the error the message listener threw last, "" for none
    srcDoc,             \* the document last handed to the iframe
    renders,            \* how many times getPreviewContent has been called
    frame,              \* the iframe: "none", "srcdoc" (shows srcDoc), "left"
    body,               \* the iframe document's body.innerHTML
    wired,              \* the body's anchors were there at the last ready point
    shownPage,          \* the page whose body the iframe shows
    click,              \* the last click on an anchor of the iframe document
    navScript,          \* the iframe document's script: it ran, and its allPages
    rawText,            \* geminiService: the response text of a call
    call,               \* geminiService: "generate" or "refine"
    response            \* geminiService: what the call parsed and handed on

\* App's state beside the FileSet and the flags.
chatVars == <<refinementHistory, genCalls, refCalls, rendered, sentFiles>>

\* The host window's message listener and queue.
messageVars == <<listenerFiles, toHost, delivered, uncaught>>

\* The sandboxed document.
frameVars == <<frame, body, wired, shownPage, click, navScript>>

\* A call of the generation / refinement service.
serviceVars == <<rawText, call, response>>

vars ==
    <<appFiles, isGenerating, isRefining, error, mounted, selectedFile,
      activePreviewPage, effectPending, pageBeforeReset, srcDoc, renders,
      chatVars, messageVars, frameVars, serviceVars>>

(***************************************************************************)
(* Text helpers: the JavaScript string primitives the source uses.         *)
(***************************************************************************)

\* s.charAt(i - 1): the i-th character (1-based), "" outside the text.
At(s, i) ==
    IF i >= 1 /\ i <= Len(s) THEN SubSeq(s, i, i) ELSE ""

\* s.startsWith(lit, i - 1)
StartsWithAt(s, i, lit) ==
    /\ i >= 1
    /\ i + Len(lit) - 1 <= Len(s)
    /\ SubSeq(s, i, i + Len(lit) - 1) = lit

\* s.startsWith(lit)
StartsWith(s, lit) ==
    StartsWithAt(s, 1, lit)

\* s.endsWith(suffix)
EndsWith(s, suffix) ==
    /\ Len(suffix) <= Len(s)
    /\ SubSeq(s, Len(s) - Len(suffix) + 1, Len(s)) = suffix

\* The least element of a non-empty set of numbers.
MinOf(S) ==
    CHOOSE x \in S : \A y \in S : x <= y

\* s.indexOf(lit, from - 1) + 1: the first position >= from where lit
\* starts, 0 when there is none.
IndexOf(s, lit, from) ==
    LET hits == {i \in from..(Len(s) - Len(lit) + 1) : StartsWithAt(s, i, lit)}
    IN  IF hits = {} THEN 0 ELSE MinOf(hits)

\* s.includes(lit)
Includes(s, lit) ==
    IndexOf(s, lit, 1) > 0

\* the text from position i to the end
From(s, i) ==
    SubSeq(s, i, Len(s))

\* the text before position i
Before(s, i) ==
    SubSeq(s, 1, i - 1)

\* The characters the regular-expression class \s matches (those that can
\* be written in a TLA+ string).
IsSpace(c) ==
    c \in {" ", "\t", "\n", "\r", "\f"}

\* The characters the regular-expression dot does not match.
IsLineTerminator(c) ==
    c \in {"\n", "\r"}

(***************************************************************************)
(* The FileSet: a sequence of files [name, content].                       *)
(***************************************************************************)

WebFile(n, c) ==
    [name |-> n, content |-> c]

\* files.some(f => f.name === n)
HasFile(files, n) ==
    \E i \in 1..Len(files) : files[i].name = n

\* files.find(f => f.name === n): the index of the first file of that name,
\* 0 for undefined.
FindFile(files, n) ==
    IF HasFile(files, n)
    THEN CHOOSE i \in 1..Len(files) :
            /\ files[i].name = n
            /\ \A j \in 1..(i - 1) : files[j].name # n
    ELSE 0

\* files.filter(f => f.name.endsWith('.html')).map(f => ({name, content}))
RECURSIVE HtmlPages(_)
HtmlPages(files) ==
    IF Len(files) = 0 THEN <<>>
    ELSE IF EndsWith(Head(files).name, ".html")
         THEN <<WebFile(Head(files).name, Head(files).content)>>
                  \o HtmlPages(Tail(files))
         ELSE HtmlPages(Tail(files))

(***************************************************************************)
(* The two regular expressions of getPreviewContent,                       *)
(*     /<link\s+.*?href="([^"]+\.css)"[^>]*>/g                             *)
(*     /<script\s+.*?src="([^"]+\.js)"[^>]*><\/script>/g                   *)
(* Both have the shape  open \s+ .*? attr ([^"]+ ext) " [^>]* close  with  *)
(* close starting with ">".                                                *)
(***************************************************************************)

NoMatch == [found |-> FALSE, end |-> 0, group |-> ""]

\* \s+ is greedy: the first position at or after i that holds no white space.
SpaceRunEnd(s, i) ==
    MinOf({j \in i..(Len(s) + 1) : ~IsSpace(At(s, j))})

\* attr ([^"]+ ext) " [^>]* close, tried at position q.  [^"]+ cannot pass a
\* quote, so the group ends at the first quote after attr; [^>]* cannot pass
\* a ">", so close must start at the first ">" after that quote.
AttrAt(s, q, attr, ext, close) ==
    IF ~StartsWithAt(s, q, attr) THEN NoMatch
    ELSE LET r == IndexOf(s, "\"", q + Len(attr))
             group == SubSeq(s, q + Len(attr), r - 1)
             g == IndexOf(s, ">", r + 1)
         IN  IF /\ r > 0
                /\ Len(group) > Len(ext)
                /\ EndsWith(group, ext)
                /\ g > 0
                /\ StartsWithAt(s, g, close)
             THEN [found |-> TRUE, end |-> g + Len(close) - 1, group |-> group]
             ELSE NoMatch

\* .*? is lazy and its dot takes no line terminator: the attribute is tried
\* at p, p + 1, ... up to the first line terminator at or after p, and the
\* first position where the rest of the expression matches is taken.
LazyAttr(s, p, attr, ext, close) ==
    LET stop == MinOf({j \in p..(Len(s) + 1) :
                          j = Len(s) + 1 \/ IsLineTerminator(At(s, j))})
        hits == {q \in p..stop : AttrAt(s, q, attr, ext, close).found}
    IN  IF hits = {} THEN NoMatch
        ELSE AttrAt(s, MinOf(hits), attr, ext, close)

\* The whole expression tried at position i.  Giving white space back from
\* \s+ to .*? can add no match (the attribute does not start with white
\* space), so the longest white-space run decides.
TagMatch(s, i, open, attr, ext, close) ==
    IF ~StartsWithAt(s, i, open) THEN NoMatch
    ELSE LET p == SpaceRunEnd(s, i + Len(open))
         IN  IF p = i + Len(open) THEN NoMatch
             ELSE LazyAttr(s, p, attr, ext, close)

linkRegex(s, i) ==
    TagMatch(s, i, "<link", "href=\"", ".css", ">")

scriptRegex(s, i) ==
    TagMatch(s, i, "<script", "src=\"", ".js", "></script>")

\* The replacer callbacks: the matched text is kept when no file has the
\* captured name.
StyleBlock(files, match, href) ==
    LET k == FindFile(files, href)
    IN  IF k > 0 THEN "<style>\n" \o files[k].content \o "\n</style>" ELSE match

ScriptBlock(files, match, src) ==
    LET k == FindFile(files, src)
    IN  IF k > 0 THEN "<script>\n" \o files[k].content \o "\n</script>" ELSE match

\* htmlContent.replace(linkRegex, callback) with the g flag, from position
\* i on: the leftmost match is replaced by the callback's result, the text
\* before it is kept, and the search goes on after the end of the match.
RECURSIVE ReplaceLinks(_, _, _)
ReplaceLinks(files, s, i) ==
    LET hits == {j \in i..Len(s) : linkRegex(s, j).found}
    IN  IF hits = {} THEN From(s, i)
        ELSE LET j == MinOf(hits)
                 m == linkRegex(s, j)
             IN  SubSeq(s, i, j - 1)
                     \o StyleBlock(files, SubSeq(s, j, m.end), m.group)
                     \o ReplaceLinks(files, s, m.end + 1)

RECURSIVE ReplaceScripts(_, _, _)
ReplaceScripts(files, s, i) ==
    LET hits == {j \in i..Len(s) : scriptRegex(s, j).found}
    IN  IF hits = {} THEN From(s, i)
        ELSE LET j == MinOf(hits)
                 m == scriptRegex(s, j)
             IN  SubSeq(s, i, j - 1)
                     \o ScriptBlock(files, SubSeq(s, j, m.end), m.group)
                     \o ReplaceScripts(files, s, m.end + 1)

(***************************************************************************)
(* JSON.stringify of the page table and String.prototype.replace with a    *)
(* string pattern and a string replacement.                                *)
(***************************************************************************)

\* One character inside a JSON string literal.
JsonEscapeChar(c) ==
    CASE c = "\"" -> "\\\""
      [] c = "\\" -> "\\\\"
      [] c = "\n" -> "\\n"
      [] c = "\r" -> "\\r"
      [] c = "\t" -> "\\t"
      [] c = "\f" -> "\\f"
      [] OTHER -> c

\* Every character escaped, in order (by halves, to keep the nesting low).
RECURSIVE JsonEscape(_)
JsonEscape(s) ==
    IF Len(s) = 0 THEN ""
    ELSE IF Len(s) = 1 THEN JsonEscapeChar(s)
    ELSE JsonEscape(SubSeq(s, 1, Len(s) \div 2))
             \o JsonEscape(SubSeq(s, Len(s) \div 2 + 1, Len(s)))

JsonString(s) ==
    "\"" \o JsonEscape(s) \o "\""

JsonPage(f) ==
    "{\"name\":" \o JsonString(f.name) \o ",\"content\":" \o JsonString(f.content) \o "}"

RECURSIVE JsonPages(_, _)
JsonPages(pages, i) ==
    IF i > Len(pages) THEN ""
    ELSE (IF i > 1 THEN "," ELSE "") \o JsonPage(pages[i]) \o JsonPages(pages, i + 1)

\* JSON.stringify(pages)
JsonStringify(pages) ==
    "[" \o JsonPages(pages, 1) \o "]"

allFilesForNav(files) ==
    JsonStringify(HtmlPages(files))

\* A script head that carries the number of the render.
NavHeadStamped ==
    IF renders = 0 THEN "\n      <script data-render=\"0\">\n        const allPages = "
    ELSE "\n      <script data-render=\"1\">\n        const allPages = "

\* The template literal of navigationScript around ${allFilesForNav}.  The
\* statements between the table and the closing tag (the click interceptor
\* and the reinit listener) are not spelled out in the text.
NavHead == "\n      <script>\n        const allPages = "

NavTail == ";\n        document.addEventListener('DOMContentLoaded', () => {});\n      </script>\n    "

navigationScript(files) ==
    NavHead \o allFilesForNav(files) \o NavTail

\* The backtick character (written with the quote that closes it).
BackTick == SubSeq("`'", 1, 1)

\* GetSubstitution for a string pattern (no captures): "$$" is "$", "$&" the
\* matched text, "$" with a backtick the text before the match, "$" with a
\* single quote the text after it; any other "$" stands for itself.
\* The template is read from position i on; the text up to the next "$" is
\* copied.
RECURSIVE GetSubstitution(_, _, _, _, _)
GetSubstitution(template, i, matched, before, after) ==
    LET d == IndexOf(template, "$", i)
        c == At(template, d + 1)
    IN  IF d = 0 THEN From(template, i)
        ELSE IF c \in {"$", "&", BackTick, "'"}
             THEN SubSeq(template, i, d - 1)
                      \o (CASE c = "$" -> "$"
                             [] c = "&" -> matched
                             [] c = BackTick -> before
                             [] OTHER -> after)
                      \o GetSubstitution(template, d + 2, matched, before, after)
             ELSE SubSeq(template, i, d)
                      \o GetSubstitution(template, d + 1, matched, before, after)

\* s.replace(pattern, replacement): the first occurrence only.
StringReplace(s, pattern, replacement) ==
    LET k == IndexOf(s, pattern, 1)
    IN  IF k = 0 THEN s
        ELSE Before(s, k)
                 \o GetSubstitution(replacement, 1, pattern,
                                    Before(s, k), From(s, k + Len(pattern)))
                 \o From(s, k + Len(pattern))

(***************************************************************************)
(* getPreviewContent                                                       *)
(***************************************************************************)

PreviewError(page) ==
    "<!-- Preview Error: Could not find HTML file \"" \o page \o "\" -->"

\* The markup after both inlining passes.
InlinedMarkup(files, htmlContent) ==
    ReplaceScripts(files, ReplaceLinks(files, htmlContent, 1), 1)

\* A compositor that takes any file of the given name for the page.
PageFileAnySuffix(files, page) ==
    FindFile(files, page)

\* pageFile, as an index: the first file of the given name if its name ends
\* in ".html", else 0 (the error branch).
PageFile(files, page) ==
    LET k == FindFile(files, page)
    IN  IF k > 0 /\ EndsWith(files[k].name, ".html") THEN k ELSE 0

getPreviewContent(files, page) ==
    IF Len(files) = 0 THEN ""
    ELSE LET k == PageFile(files, page)
         IN  IF k = 0
             THEN PreviewError(page)
             ELSE StringReplace(InlinedMarkup(files, files[k].content),
                                "</body>",
                                navigationScript(files) \o "</body>")

(***************************************************************************)
(* The host: App and CodeResult.                                           *)
(***************************************************************************)

NoFiles == <<>>

SomeFiles(fs) == <<fs>>

\* CodeResult's files prop
files == appFiles[1]

NoError == ""

\* page.split('/').pop(): the text after the last "/".
LastSegment(page) ==
    LET slashes == {i \in 1..Len(page) : At(page, i) = "/"}
    IN  IF slashes = {} THEN page
        ELSE From(page, (CHOOSE i \in slashes : \A j \in slashes : j <= i) + 1)

\* A default that is the first file whatever the names are.
DefaultSelectionFirst(fs) ==
    IF Len(fs) > 0 THEN fs[1].name ELSE ""

\* files.find(f => f.name === 'index.html')?.name || files[0]?.name || ''
DefaultSelection(fs) ==
    IF HasFile(fs, "index.html") THEN "index.html"
    ELSE IF Len(fs) > 0 /\ fs[1].name # "" THEN fs[1].name
    ELSE ""

\* A reset effect that leaves the page as it finds it.
ResetPreviewPageKept(fs) ==
    activePreviewPage

\* The value the reset effect gives activePreviewPage when no file has the
\* current name.
ResetPreviewPage(fs) ==
    "index.html"

\* The initial screen is rendered: the only place handleGenerate is wired to.
InitialScreen ==
    appFiles = NoFiles /\ ~isGenerating /\ error = NoError

\* files.map(file => file.name === selectedFile ? {...file, content} : file)
UpdatedFiles(fs, sel, newContent) ==
    [i \in 1..Len(fs) |->
        IF fs[i].name = sel THEN WebFile(fs[i].name, newContent) ELSE fs[i]]

(***************************************************************************)
(* Inputs of the host specification: what the generation and refinement    *)
(* collaborators may return, what the user may type, what the iframe may   *)
(* post.                                                                   *)
(***************************************************************************)

\* The most files a returned FileSet holds.
MaxFiles == 2

HostNames == {"index.html", "about.html"}

\* The content a collaborator returns for a file of a given name.
ReturnedContent(n) ==
    IF EndsWith(n, ".html")
    THEN "<body><a href=\"about.html\">About</a></body>"
    ELSE "body{color:red}"

\* The FileSets a collaborator may return: up to MaxFiles files of distinct
\* names, in any order; the empty sequence is a legal "files" value.
HostFileSets ==
    {fs \in UNION {[1..n -> {WebFile(m, ReturnedContent(m)) : m \in HostNames}] :
                       n \in 0..MaxFiles} :
        \A i, j \in 1..Len(fs) : i # j => fs[i].name # fs[j].name}

\* What the user may type into the code view.
EditContents == {"<body>edited</body>"}

\* Messages the window may receive: "navigate" with a page path, and a
\* message of another kind, a "virtual-nav-reinit" (here from a sender that
\* gives it a page, as a "navigate" has one).
NavPaths ==
    {"/site/about.html", "missing.html"}

\* { type: 'virtual-nav-reinit' }, the message the navigation script posts.
ReinitMessage == [type |-> "virtual-nav-reinit", page |-> ""]

Messages ==
    {[type |-> "navigate", page |-> p] : p \in NavPaths}
        \cup {[type |-> "virtual-nav-reinit", page |-> "about.html"]}

\* No message has been received yet (the type of the last one otherwise).
NoMessage == ""

\* The most refinement requests followed.
MaxRefines == 1

\* The most generation calls that are outstanding together.
MaxCalls == 2

\* What the user types into the refinement box, and what a refinement
\* returns as its explanation.
RefinementPrompt == "make the header blue"

Explanation == "Header diubah menjadi biru."

\* err.message of a failed call.
ErrorMessages ==
    {"Could not parse a valid object from the model's response."}

UserMessage(content) == [role |-> "user", content |-> content]

AssistantMessage(content) == [role |-> "assistant", content |-> content]

\* No click yet in the iframe document.
NoClick == [anchor |-> 0, href |-> "", prevented |-> FALSE]

\* No navigation script runs in the iframe.
NoScript == [defined |-> FALSE, pages |-> <<>>]

\* No iframe document: CodeResult has not rendered the preview.
FrameIdle ==
    /\ frame = "none"
    /\ body = ""
    /\ wired = FALSE
    /\ shownPage = ""
    /\ click = NoClick
    /\ navScript = NoScript

\* No call of the service is followed.
NoResponse ==
    [status |-> "none", parsed |-> [t |-> "undefined"],
     value |-> [t |-> "undefined"]]

ServiceIdle ==
    /\ rawText = ""
    /\ call = ""
    /\ response = NoResponse

(***************************************************************************)
(* The host's actions.  A handler belongs to a render: it reads the state  *)
(* of that render, and the controls that call it are enabled as that       *)
(* render left them.  React renders again when the event it dispatched (a  *)
(* click, a key) is over, so a request that comes before that (a second    *)
(* click or key dispatched in the same task) reaches the handler of the    *)
(* render before.  React runs the pending effects before it dispatches     *)
(* such an event, so those handlers wait for ~effectPending.  A "message"  *)
(* event of the window is not dispatched by React: it reaches the listener *)
(* that the last run of the effect registered, which closes over the files *)
(* of that render.                                                         *)
(***************************************************************************)

\* What a render of App shows and what its handlers close over.
Rendering(fs, generating, refining, err) ==
    [initialScreen |-> (fs = NoFiles /\ ~generating /\ err = NoError),
     isGenerating |-> generating,
     isRefining |-> refining]

\* The state changed in an event that is not over: App has not rendered it.
RenderPending ==
    rendered # Rendering(appFiles, isGenerating, isRefining, error)

HostInit ==
    /\ appFiles = NoFiles
    /\ isGenerating = FALSE
    /\ isRefining = FALSE
    /\ error = NoError
    /\ refinementHistory = <<>>
    /\ genCalls = 0
    /\ refCalls = 0
    /\ sentFiles = NoFiles
    /\ rendered = Rendering(NoFiles, FALSE, FALSE, NoError)
    /\ mounted = FALSE
    /\ selectedFile = ""
    /\ activePreviewPage = ""
    /\ effectPending = FALSE
    /\ pageBeforeReset = ""
    /\ listenerFiles = NoFiles
    /\ toHost = <<>>
    /\ delivered = NoMessage
    /\ uncaught = NoError
    /\ srcDoc = ""
    /\ renders = 0
    /\ FrameIdle
    /\ ServiceIdle

\* handleGenerate goes on past its first line (the prompt is not blank):
\* isGenerating is the one of the render the handler belongs to.
StartsGeneration ==
    ~rendered.isGenerating

\* App.handleGenerate up to the await.  The handler is wired to the initial
\* screen, to the prompt box, its button and the suggestions.
handleGenerate ==
    /\ rendered.initialScreen
    /\ genCalls < MaxCalls
    /\ IF StartsGeneration
       THEN /\ isGenerating' = TRUE
            /\ error' = NoError
            /\ appFiles' = NoFiles
            /\ refinementHistory' = <<>>
            /\ genCalls' = genCalls + 1
       ELSE UNCHANGED <<isGenerating, error, appFiles, refinementHistory,
                        genCalls>>
    /\ UNCHANGED <<isRefining, refCalls, sentFiles, rendered, mounted,
                   selectedFile, activePreviewPage, effectPending,
                   pageBeforeReset, srcDoc, renders, messageVars, frameVars,
                   serviceVars>>

\* The event is over: React renders App with the state the handlers set.
\* The arguments of the event's calls are gone with it.
render ==
    /\ RenderPending
    /\ rendered' = Rendering(appFiles, isGenerating, isRefining, error)
    /\ sentFiles' = NoFiles
    /\ UNCHANGED <<appFiles, isGenerating, isRefining, error, mounted,
                   selectedFile, activePreviewPage, effectPending,
                   pageBeforeReset, srcDoc, renders, refinementHistory,
                   genCalls, refCalls, messageVars, frameVars, serviceVars>>

\* A generation call returns fs: setAppFiles(newCode), setIsGenerating(false),
\* and App renders.  CodeResult mounts with its initial state if it is not
\* mounted; its effects have not run.
GenerateResolved(fs) ==
    /\ ~RenderPending
    /\ genCalls > 0
    /\ appFiles' = SomeFiles(fs)
    /\ isGenerating' = FALSE
    /\ genCalls' = genCalls - 1
    /\ mounted' = TRUE
    /\ IF mounted
       THEN UNCHANGED <<selectedFile, activePreviewPage, listenerFiles>>
       ELSE /\ selectedFile' = DefaultSelection(fs)
            /\ activePreviewPage' = "index.html"
            /\ listenerFiles' = NoFiles
    /\ effectPending' = TRUE
    /\ UNCHANGED <<isRefining, error, refinementHistory, refCalls, sentFiles,
                   pageBeforeReset, toHost, delivered, uncaught, srcDoc, renders,
                   frameVars, serviceVars>>
    /\ rendered' = Rendering(appFiles', isGenerating', isRefining', error')

\* A generation call throws.
GenerateRejected ==
    /\ ~RenderPending
    /\ genCalls > 0
    /\ error' = "Failed to generate app. An unknown error occurred."
    /\ isGenerating' = FALSE
    /\ genCalls' = genCalls - 1
    /\ UNCHANGED <<appFiles, isRefining, refinementHistory, refCalls, sentFiles, mounted,
                   selectedFile, activePreviewPage, effectPending,
                   pageBeforeReset, srcDoc, renders, messageVars, frameVars,
                   serviceVars>>
    /\ rendered' = Rendering(appFiles', isGenerating', isRefining', error')

\* The effects of CodeResult, on the values of the render they belong to:
\* handleMessage is registered anew (it closes over files), and the reset
\* effect runs.  A changed selector renders again, and the effects run again.
ResetEffect ==
    /\ ~RenderPending
    /\ mounted
    /\ effectPending
    /\ listenerFiles' = SomeFiles(files)
    /\ selectedFile' =
           IF ~HasFile(files, selectedFile) THEN DefaultSelection(files)
           ELSE selectedFile
    /\ activePreviewPage' =
           IF ~HasFile(files, activePreviewPage) THEN ResetPreviewPage(files)
           ELSE activePreviewPage
    /\ pageBeforeReset' = activePreviewPage
    /\ effectPending' =
           (selectedFile' # selectedFile \/ activePreviewPage' # activePreviewPage)
    /\ UNCHANGED <<appFiles, isGenerating, isRefining, error, mounted, srcDoc,
                   renders, chatVars, toHost, delivered, uncaught, frameVars,
                   serviceVars>>

\* A handleRefine that goes on with no FileSet.
StartsRefinementWithoutFiles ==
    ~rendered.isRefining

\* handleRefine goes on past its first line (the prompt is not blank):
\* appFiles and isRefining are those of the render the handler belongs to.
StartsRefinement ==
    appFiles # NoFiles /\ ~rendered.isRefining

\* App.handleRefine up to the await.  The refinement box is on the second
\* screen; the box and its button are disabled in a render with isRefining.
\* refineWebAppCode gets the appFiles the handler closes over, and puts them
\* into the prompt before its own await: later events cannot reach them.
handleRefine ==
    /\ ~rendered.initialScreen
    /\ ~rendered.isRefining
    /\ ~effectPending
    /\ StartsRefinement => Len(refinementHistory) < 2 * MaxRefines
    /\ IF StartsRefinement
       THEN /\ refinementHistory' =
                   Append(refinementHistory, UserMessage(RefinementPrompt))
            /\ isRefining' = TRUE
            /\ error' = NoError
            /\ refCalls' = refCalls + 1
            /\ sentFiles' = appFiles
       ELSE UNCHANGED <<refinementHistory, isRefining, error, refCalls,
                        sentFiles>>
    /\ UNCHANGED <<appFiles, isGenerating, genCalls, rendered, mounted,
                   selectedFile, activePreviewPage, effectPending,
                   pageBeforeReset, srcDoc, renders, messageVars, frameVars,
                   serviceVars>>

\* A completion that keeps a FileSet with a file the user edited.
RefineResolvedKeepingEdits(fs) ==
    /\ ~RenderPending
    /\ ~effectPending
    /\ refCalls > 0
    /\ appFiles' = IF \E i \in 1..Len(appFiles[1]) :
                          appFiles[1][i].content \in EditContents
                    THEN appFiles
                    ELSE SomeFiles(fs)
    /\ refinementHistory' = Append(refinementHistory, AssistantMessage(Explanation))
    /\ isRefining' = FALSE
    /\ refCalls' = refCalls - 1
    /\ effectPending' = TRUE
    /\ UNCHANGED <<isGenerating, error, genCalls, sentFiles, mounted, selectedFile,
                   activePreviewPage, pageBeforeReset, srcDoc, renders,
                   messageVars, frameVars, serviceVars>>
    /\ rendered' = Rendering(appFiles', isGenerating', isRefining', error')

\* A refinement call returns fs: setAppFiles(refinedResult.files), the
\* explanation goes to the transcript, and App renders.
RefineResolved(fs) ==
    /\ ~RenderPending
    /\ ~effectPending
    /\ refCalls > 0
    /\ appFiles' = SomeFiles(fs)
    /\ refinementHistory' = Append(refinementHistory, AssistantMessage(Explanation))
    /\ isRefining' = FALSE
    /\ refCalls' = refCalls - 1
    /\ effectPending' = TRUE
    /\ UNCHANGED <<isGenerating, error, genCalls, sentFiles, mounted, selectedFile,
                   activePreviewPage, pageBeforeReset, srcDoc, renders,
                   messageVars, frameVars, serviceVars>>
    /\ rendered' = Rendering(appFiles', isGenerating', isRefining', error')

\* A catch block of handleRefine that writes nothing to the transcript.
RefinementFailureSilent(errorMessage) ==
    refinementHistory

\* The transcript after the catch block of handleRefine.
RefinementFailure(errorMessage) ==
    Append(refinementHistory,
           AssistantMessage("I'm sorry, I encountered an error: " \o errorMessage))

\* A refinement call throws.
RefineRejected(errorMessage) ==
    /\ ~RenderPending
    /\ ~effectPending
    /\ refCalls > 0
    /\ error' = "Failed to refine app. " \o errorMessage
    /\ refinementHistory' = RefinementFailure(errorMessage)
    /\ isRefining' = FALSE
    /\ refCalls' = refCalls - 1
    /\ UNCHANGED <<appFiles, isGenerating, genCalls, sentFiles, mounted, selectedFile,
                   activePreviewPage, effectPending, pageBeforeReset, srcDoc,
                   renders, messageVars, frameVars, serviceVars>>
    /\ rendered' = Rendering(appFiles', isGenerating', isRefining', error')

\* CodeResult.handleFileContentChange: the textarea's onChange.
handleFileContentChange(newContent) ==
    /\ ~RenderPending
    /\ mounted
    /\ ~effectPending
    /\ appFiles' = SomeFiles(UpdatedFiles(files, selectedFile, newContent))
    /\ effectPending' = TRUE
    /\ UNCHANGED <<isGenerating, isRefining, error, mounted, selectedFile,
                   activePreviewPage, pageBeforeReset, srcDoc, renders,
                   chatVars, messageVars, frameVars, serviceVars>>

\* A click on a file of the file list that shows the file in the preview
\* as well.
setSelectedFileAndPage(n) ==
    /\ ~RenderPending
    /\ mounted
    /\ ~effectPending
    /\ HasFile(files, n)
    /\ n # selectedFile
    /\ selectedFile' = n
    /\ activePreviewPage' = n
    /\ effectPending' = TRUE
    /\ UNCHANGED <<appFiles, isGenerating, isRefining, error, mounted,
                   pageBeforeReset, srcDoc, renders, chatVars, messageVars,
                   frameVars, serviceVars>>

\* A click on a file of the file list.
setSelectedFile(n) ==
    /\ ~RenderPending
    /\ mounted
    /\ ~effectPending
    /\ HasFile(files, n)
    /\ n # selectedFile
    /\ selectedFile' = n
    /\ effectPending' = TRUE
    /\ UNCHANGED <<appFiles, isGenerating, isRefining, error, mounted,
                   activePreviewPage, pageBeforeReset, srcDoc, renders,
                   chatVars, messageVars, frameVars, serviceVars>>

\* Some window posts msg to the host window (a script of a generated page
\* with window.parent.postMessage; handleMessage looks at neither the origin
\* nor the source of a message).  Messages are handled one at a time, so
\* the next one is posted when the last one has been handled.
postMessage(msg) ==
    /\ ~RenderPending
    /\ mounted
    /\ toHost = <<>>
    /\ toHost' = Append(toHost, msg)
    /\ UNCHANGED <<appFiles, isGenerating, isRefining, error, mounted,
                   selectedFile, activePreviewPage, effectPending,
                   pageBeforeReset, srcDoc, renders, chatVars, listenerFiles,
                   delivered, uncaught, frameVars, serviceVars>>

\* A handleMessage that takes a message of any type for a navigation.
IsNavigateAnyType(msg) ==
    TRUE

\* event.data && event.data.type === 'navigate'
IsNavigate(msg) ==
    msg.type = "navigate"

\* The files handleMessage looks the page up in: those of the render whose
\* effect registered it.
LookupFiles ==
    listenerFiles[1]

\* typeof event.data.page === 'string'.  A message is a record with its
\* type and its page; a message with no page has no page field, and one
\* whose page is no string has the type of the page in typeofPage.
PageIsString(msg) ==
    DOMAIN msg = {"type", "page"}

\* event.data.page.split('/').pop()
PageName(msg) ==
    LastSegment(msg.page)

\* CodeResult.handleMessage for the message at the head of the queue.  The
\* split of a page that is undefined or no string throws a TypeError, which
\* nothing in the listener catches.
handleMessage ==
    /\ ~RenderPending
    /\ mounted
    /\ listenerFiles # NoFiles
    /\ toHost # <<>>
    /\ LET msg == Head(toHost)
       IN  /\ IF IsNavigate(msg) /\ ~PageIsString(msg)
              THEN /\ uncaught' = "TypeError"
                   /\ UNCHANGED <<activePreviewPage, effectPending>>
              ELSE /\ IF IsNavigate(msg) /\ HasFile(LookupFiles, PageName(msg))
                      THEN /\ activePreviewPage' = PageName(msg)
                           /\ effectPending' =
                                  (effectPending \/ PageName(msg) # activePreviewPage)
                      ELSE UNCHANGED <<activePreviewPage, effectPending>>
                   /\ uncaught' = uncaught
           /\ delivered' = msg.type
    /\ toHost' = Tail(toHost)
    /\ UNCHANGED <<appFiles, isGenerating, isRefining, error, mounted,
                   selectedFile, pageBeforeReset, srcDoc, renders, chatVars,
                   listenerFiles, frameVars, serviceVars>>

\* A message that arrives before the first run of the effect finds no
\* listener.
messageUnheard ==
    /\ ~RenderPending
    /\ mounted
    /\ listenerFiles = NoFiles
    /\ toHost # <<>>
    /\ toHost' = Tail(toHost)
    /\ UNCHANGED <<appFiles, isGenerating, isRefining, error, mounted,
                   selectedFile, activePreviewPage, effectPending,
                   pageBeforeReset, srcDoc, renders, chatVars, listenerFiles,
                   delivered, uncaught, frameVars, serviceVars>>

Next ==
    \/ handleGenerate
    \/ render
    \/ \E fs \in HostFileSets : GenerateResolved(fs)
    \/ GenerateRejected
    \/ ResetEffect
    \/ handleRefine
    \/ \E fs \in HostFileSets : RefineResolved(fs)
    \/ \E m \in ErrorMessages : RefineRejected(m)
    \/ \E c \in EditContents : handleFileContentChange(c)
    \/ \E n \in HostNames : setSelectedFile(n)
    \/ \E msg \in Messages : postMessage(msg)
    \/ handleMessage
    \/ messageUnheard

Spec == HostInit /\ [][Next]_vars

(***************************************************************************)
(* The compositor on its own: CodeResult is mounted with some FileSet and  *)
(* some Active Preview Page, and renders.                                  *)
(***************************************************************************)

\* The most elements the head of the generated index.html holds.
MaxFrags == 2

\* The most renders followed.
MaxRenders == 2

\* Elements a generated page's head may hold.
HeadFragments ==
    { "<link rel=\"stylesheet\" href=\"style.css\">",
      "<link rel=\"icon\" href=\"favicon.ico\">",
      "<link rel=\"stylesheet\"\n      href=\"style.css\">",
      "<script src=\"app.js\"></script>",
      "<script type=\"module\">boot()</script>",
      "<script defer\n        src=\"app.js\"></script>",
      "\n" }

\* Bodies a generated page may have: with and without a closing body tag.
BodyFragments ==
    { "<body><a href=\"about.html\">About</a></body>",
      "<body><p>unclosed</p>" }

RECURSIVE Concat(_)
Concat(parts) ==
    IF Len(parts) = 0 THEN "" ELSE Head(parts) \o Concat(Tail(parts))

IndexPages ==
    {WebFile("index.html", "<html><head>" \o Concat(h) \o "</head>" \o b \o "</html>") :
        h \in UNION {[1..n -> HeadFragments] : n \in 0..MaxFrags},
        b \in BodyFragments}

\* The other files of a generated project.
OtherFiles ==
    { <<>>,
      <<WebFile("style.css", "body{color:red}"),
        WebFile("app.js", "console.log(1)"),
        WebFile("about.html", "<body><a href=\"index.html\">Home</a></body>")>>,
      <<WebFile("style.css", "a::after{content:\"</body>\"}"),
        WebFile("app.js", "document.title = '</body>'"),
        WebFile("about.html", "<body><a href=\"index.html\">Home</a></body>")>>,
      <<WebFile("style.css", "body{color:red}"),
        WebFile("app.js", "console.log(1)"),
        WebFile("about.html", "<body><p>Price: $& $$ $' $`' </p></body>")>> }

\* FileSets with no index.html, the empty FileSet among them.
PagelessFileSets ==
    { <<>>,
      <<WebFile("style.css", "body{color:red}"), WebFile("app.js", "console.log(1)")>>,
      <<WebFile("about.html", "<body><a href=\"index.html\">Home</a></body>"),
        WebFile("style.css", "body{color:red}")>> }

ComposeFileSets ==
    {<<p>> \o o : p \in IndexPages, o \in OtherFiles} \cup PagelessFileSets

\* The values the Active Preview Page may have at a render: the initial
\* "index.html", or a name a "navigate" message gave it.
ComposePages == {"index.html", "about.html", "style.css"}

ComposeInit ==
    /\ appFiles \in {SomeFiles(fs) : fs \in ComposeFileSets}
    /\ activePreviewPage \in ComposePages
    /\ selectedFile = DefaultSelection(files)
    /\ isGenerating = FALSE
    /\ isRefining = FALSE
    /\ error = NoError
    /\ refinementHistory = <<>>
    /\ genCalls = 0
    /\ refCalls = 0
    /\ sentFiles = NoFiles
    /\ rendered = Rendering(appFiles, FALSE, FALSE, NoError)
    /\ mounted = TRUE
    /\ effectPending = TRUE
    /\ pageBeforeReset = ""
    /\ listenerFiles = NoFiles
    /\ toHost = <<>>
    /\ delivered = NoMessage
    /\ uncaught = NoError
    /\ srcDoc = ""
    /\ renders = 0
    /\ FrameIdle
    /\ ServiceIdle

(***************************************************************************)
(* Properties of the Active Preview Page (host specification Spec).        *)
(***************************************************************************)

\* C1: once the reset effect has run, the Active Preview Page names a file
\* of the current (non-empty) FileSet.
C1_ActivePageExists ==
    (mounted /\ ~effectPending /\ Len(files) > 0)
        => HasFile(files, activePreviewPage)

\* C2: a run of the reset effect that finds the Active Preview Page naming
\* no file, in a FileSet that has "index.html", sets it to "index.html".
C2_ResetToIndex ==
    [][(/\ ResetEffect
        /\ ~HasFile(files, activePreviewPage)
        /\ HasFile(files, "index.html"))
          => activePreviewPage' = "index.html"]_vars

\* The reset effect found "about.html", which the replaced FileSet no longer
\* has, and put "index.html" in its place.
C2_Witness ==
    /\ mounted
    /\ pageBeforeReset = "about.html"
    /\ ~HasFile(files, "about.html")
    /\ HasFile(files, "index.html")
    /\ activePreviewPage = "index.html"

\* C3: a run of the reset effect that finds the Active Preview Page naming
\* no file, in a FileSet without "index.html", sets it to the name of the
\* first file.
C3_ResetToFirstFile ==
    [][(/\ ResetEffect
        /\ ~HasFile(files, activePreviewPage)
        /\ ~HasFile(files, "index.html")
        /\ Len(files) > 0)
          => activePreviewPage' = files[1].name]_vars

(***************************************************************************)
(* Properties of getPreviewContent (specification SpecCompose).            *)
(* The elements of the page's markup are found as an HTML reader finds     *)
(* them: a tag runs from "<name" and white space to the next ">".          *)
(***************************************************************************)

\* The Active Preview Page names a file that ends in ".html".
PageFound ==
    FindFile(files, activePreviewPage) > 0 /\ EndsWith(activePreviewPage, ".html")

\* The raw markup of the Active Preview Page.
Markup ==
    files[FindFile(files, activePreviewPage)].content

\* The positions where a tag of the given name, with attributes, starts.
TagStarts(s, open) ==
    {i \in 1..Len(s) : StartsWithAt(s, i, open) /\ IsSpace(At(s, i + Len(open)))}

\* The text of the tag that starts at i, up to its ">".
TagText(s, i) ==
    SubSeq(s, i, IndexOf(s, ">", i))

\* The value of a double-quoted attribute of a tag, "" when it has none.
AttrValue(tag, attr) ==
    LET at == {i \in 2..Len(tag) :
                  StartsWithAt(tag, i, attr \o "=\"") /\ IsSpace(At(tag, i - 1))}
    IN  IF at = {} THEN ""
        ELSE LET v == MinOf(at) + Len(attr) + 2
             IN  SubSeq(tag, v, IndexOf(tag, "\"", v) - 1)

\* The link tags of the markup, and the script elements with a src (the
\* opening tag directly followed by the closing tag).
LinkTags(s) ==
    {TagText(s, i) : i \in TagStarts(s, "<link")}

ScriptElements(s) ==
    {TagText(s, i) \o "</script>" :
        i \in {j \in TagStarts(s, "<script") :
                  StartsWithAt(s, IndexOf(s, ">", j) + 1, "</script>")}}

\* A composed text that is a clearly-marked diagnostic for the page.
IsDiagnostic(doc, page) ==
    /\ StartsWith(doc, "<!-- Preview Error")
    /\ Includes(doc, "\"" \o page \o "\"")
    /\ EndsWith(doc, "-->")

NoBodyTagInAssets ==
    \A i \in 1..Len(files) :
        EndsWith(files[i].name, ".html") \/ ~Includes(files[i].content, "</body>")

\* C5: every link tag of the page whose href names a ".css" file of the
\* FileSet is gone from the composed document, which holds that file's
\* content in a style block (stated for FileSets with NoBodyTagInAssets).
C5_StylesheetInlined ==
    (renders >= 1 /\ PageFound /\ NoBodyTagInAssets)
        => \A tag \in LinkTags(Markup) :
              LET href == AttrValue(tag, "href")
              IN  (EndsWith(href, ".css") /\ HasFile(files, href))
                    => /\ ~Includes(srcDoc, tag)
                       /\ Includes(srcDoc, "<style>\n"
                              \o files[FindFile(files, href)].content
                              \o "\n</style>")

\* C6: every script element of the page whose src names a ".js" file of the
\* FileSet is gone from the composed document, which holds that file's
\* content in a script block (stated for FileSets with NoBodyTagInAssets).
C6_ScriptInlined ==
    (renders >= 1 /\ PageFound /\ NoBodyTagInAssets)
        => \A el \in ScriptElements(Markup) :
              LET src == AttrValue(el, "src")
              IN  (EndsWith(src, ".js") /\ HasFile(files, src))
                    => /\ ~Includes(srcDoc, el)
                       /\ Includes(srcDoc, "<script>\n"
                              \o files[FindFile(files, src)].content
                              \o "\n</script>")

\* C7: every link tag and script element of the page that references a file
\* the FileSet does not have is in the composed document as it was written.
C7_MissingFilePassthrough ==
    (renders >= 1 /\ PageFound)
        => /\ \A tag \in LinkTags(Markup) :
                 LET href == AttrValue(tag, "href")
                 IN  (href # "" /\ ~HasFile(files, href)) => Includes(srcDoc, tag)
           /\ \A el \in ScriptElements(Markup) :
                 LET src == AttrValue(el, "src")
                 IN  (src # "" /\ ~HasFile(files, src)) => Includes(srcDoc, el)

\* The greatest element of a non-empty set of numbers.
MaxOf(S) ==
    CHOOSE x \in S : \A y \in S : y <= x

\* Position k of a text lies inside a style or script element: the last such
\* element opened before k is not closed before k.
InRawText(s, k) ==
    \E el \in {"style", "script"} :
        LET opens == {i \in 1..(k - 1) : StartsWithAt(s, i, "<" \o el)}
        IN  /\ opens # {}
            /\ LET c == IndexOf(s, "</" \o el, MaxOf(opens))
               IN  c = 0 \/ c > k

\* The closing body tags of a document: the text "</body>" outside style and
\* script elements.
BodyCloseTags(s) ==
    {k \in 1..Len(s) : StartsWithAt(s, k, "</body>") /\ ~InRawText(s, k)}

\* The positions where a navigation script starts.
NavStarts(doc) ==
    {k \in 1..Len(doc) : StartsWithAt(doc, k, NavHead)}

\* C8: when the inlined markup has a closing body tag, the composed document
\* is that markup with one navigation script put right before that tag; when
\* it has none, the composed document is the inlined markup.
C8_NavScriptBeforeBodyClose ==
    (renders >= 1 /\ PageFound)
        => LET m == InlinedMarkup(files, Markup)
               closes == BodyCloseTags(m)
           IN  IF closes = {} THEN srcDoc = m
               ELSE \E k \in closes :
                       /\ NavStarts(srcDoc) = {k}
                       /\ Before(srcDoc, k) = Before(m, k)
                       /\ EndsWith(srcDoc, NavTail \o From(m, k))

NavScriptOpen == "\n      <script>"

\* The text of the script element that starts at the injected "<script>".
InjectedScriptText(doc) ==
    LET start == IndexOf(doc, NavHead, 1) + Len(NavScriptOpen)
    IN  SubSeq(doc, start, IndexOf(doc, "</script", start) - 1)

\* The number of backslashes directly before position j.
RECURSIVE BackslashRun(_, _)
BackslashRun(s, j) ==
    IF j <= 1 \/ At(s, j - 1) # "\\" THEN 0 ELSE 1 + BackslashRun(s, j - 1)

\* A backslash that starts an escape sequence.
IsEscapeStart(s, p) ==
    At(s, p) = "\\" /\ BackslashRun(s, p) % 2 = 0

\* The character an escape sequence stands for.
Unescaped(c) ==
    CASE c = "n" -> "\n"
      [] c = "r" -> "\r"
      [] c = "t" -> "\t"
      [] c = "f" -> "\f"
      [] OTHER -> c

\* The value of the string literal body s[lo..hi] (by halves).
RECURSIVE StringValue(_, _, _)
StringValue(s, lo, hi) ==
    IF lo > hi THEN ""
    ELSE IF lo = hi
         THEN IF IsEscapeStart(s, lo) THEN ""
              ELSE IF lo > 1 /\ IsEscapeStart(s, lo - 1) THEN Unescaped(At(s, lo))
              ELSE At(s, lo)
    ELSE StringValue(s, lo, (lo + hi) \div 2)
             \o StringValue(s, (lo + hi) \div 2 + 1, hi)

ParseFail == [ok |-> FALSE, val |-> "", next |-> 0]

\* A double-quoted string literal at position i: it ends at the first quote
\* that no backslash escapes, and holds no raw line terminator.
ParseString(s, i) ==
    IF At(s, i) # "\"" THEN ParseFail
    ELSE LET ends == {j \in (i + 1)..Len(s) :
                         At(s, j) = "\"" /\ BackslashRun(s, j) % 2 = 0}
         IN  IF ends = {} THEN ParseFail
             ELSE LET e == MinOf(ends)
                  IN  IF \E p \in (i + 1)..(e - 1) : IsLineTerminator(At(s, p))
                      THEN ParseFail
                      ELSE [ok |-> TRUE, val |-> StringValue(s, i + 1, e - 1),
                            next |-> e + 1]

\* {"name":<string>,"content":<string>} at position i.
ParsePage(s, i) ==
    IF ~StartsWithAt(s, i, "{\"name\":") THEN ParseFail
    ELSE LET n == ParseString(s, i + 8)
         IN  IF ~n.ok \/ ~StartsWithAt(s, n.next, ",\"content\":") THEN ParseFail
             ELSE LET c == ParseString(s, n.next + 11)
                  IN  IF ~c.ok \/ At(s, c.next) # "}" THEN ParseFail
                      ELSE [ok |-> TRUE, val |-> WebFile(n.val, c.val),
                            next |-> c.next + 1]

\* The pages of an array literal, read from position i (after "[" or ",").
RECURSIVE ParsePages(_, _)
ParsePages(s, i) ==
    LET pg == ParsePage(s, i)
    IN  IF ~pg.ok THEN [ok |-> FALSE, val |-> <<>>, next |-> 0]
        ELSE IF At(s, pg.next) = "]"
             THEN [ok |-> TRUE, val |-> <<pg.val>>, next |-> pg.next + 1]
        ELSE IF At(s, pg.next) = ","
             THEN LET rest == ParsePages(s, pg.next + 1)
                  IN  [ok |-> rest.ok, val |-> <<pg.val>> \o rest.val,
                       next |-> rest.next]
        ELSE [ok |-> FALSE, val |-> <<>>, next |-> 0]

\* The statement "const allPages = [...];" at the start of the script text,
\* followed by the rest of the script as it was written.
PageTable(doc) ==
    LET txt == InjectedScriptText(doc)
        decl == "\n        const allPages = "
        arr == IF StartsWithAt(txt, Len(decl) + 1, "[]")
               THEN [ok |-> TRUE, val |-> <<>>, next |-> Len(decl) + 3]
               ELSE IF StartsWithAt(txt, Len(decl) + 1, "[")
                    THEN ParsePages(txt, Len(decl) + 2)
                    ELSE [ok |-> FALSE, val |-> <<>>, next |-> 0]
    IN  IF /\ StartsWith(txt, decl)
           /\ arr.ok
           /\ From(txt, arr.next) \o "</script>\n    " = NavTail
        THEN [defined |-> TRUE, pages |-> arr.val]
        ELSE NoScript

(***************************************************************************)
(* The render of the preview (specification SpecCompose): the composed     *)
(* document goes to the iframe, whose script reads its page table when the *)
(* document is loaded.                                                     *)
(***************************************************************************)

\* body.innerHTML of a parsed document: the text between the body tag and
\* its closing tag; a text with no body tag is all body content.
BodyInner(markup) ==
    LET open == IndexOf(markup, "<body", 1)
        start == IF open = 0 THEN 1 ELSE IndexOf(markup, ">", open) + 1
        close == IndexOf(markup, "</body>", start)
    IN  IF close = 0 THEN From(markup, start)
        ELSE SubSeq(markup, start, close - 1)

\* A render of CodeResult with the preview shown: srcDoc={getPreviewContent()}.
\* The iframe loads the document when it gets its first or a new srcdoc; at
\* the document's ready point every anchor of the body is in the document.
Render ==
    /\ mounted
    /\ renders < MaxRenders
    /\ srcDoc' = getPreviewContent(files, activePreviewPage)
    /\ renders' = renders + 1
    /\ IF frame = "none" \/ srcDoc' # srcDoc
       THEN /\ frame' = "srcdoc"
            /\ body' = BodyInner(srcDoc')
            /\ wired' = TRUE
            /\ shownPage' = activePreviewPage
            /\ click' = NoClick
            /\ navScript' = PageTable(srcDoc')
       ELSE UNCHANGED frameVars
    /\ UNCHANGED <<appFiles, isGenerating, isRefining, error, mounted,
                   selectedFile, activePreviewPage, effectPending,
                   pageBeforeReset, chatVars, messageVars, serviceVars>>

NextCompose ==
    Render

SpecCompose == ComposeInit /\ [][NextCompose]_vars

\* C10: the page table of a composed document that has a navigation script
\* holds one entry per ".html" file, in FileSet order, with the file's own
\* content.
C10_PageTableFidelity ==
    (renders >= 1 /\ PageFound /\ NavStarts(srcDoc) # {})
        => PageTable(srcDoc) = [defined |-> TRUE, pages |-> HtmlPages(files)]

(***************************************************************************)
(* The sandboxed document: the iframe that shows srcDoc, with the          *)
(* navigation script's click listeners (specification SpecNav).  The       *)
(* script runs when the document that carries it is loaded; its            *)
(* DOMContentLoaded listener puts a click listener on every anchor that is *)
(* in the document then.  The script's own "message" listener (it replays  *)
(* DOMContentLoaded on a "virtual-nav-reinit") hears the messages posted   *)
(* to the iframe's window: the script posts its message to window.parent,  *)
(* and the host posts nothing to the iframe, so it has no step here.       *)
(***************************************************************************)

\* The most anchors the body of the generated index.html holds.
MaxLinks == 1

\* The anchors a generated page may hold: links to pages of the project
\* (one with a name that starts with "http"), to a page the project does
\* not have, to another site, to a place in the page, and an anchor that is
\* no link.
NavAnchors ==
    { "<a href=\"about.html\">About</a>",
      "<a href=\"http-status.html\">Status</a>",
      "<a href=\"missing.html\">Missing</a>",
      "<a href=\"https://x.com\">X</a>",
      "<a href=\"#top\">Top</a>",
      "<a name=\"top\">Here</a>" }

\* The projects the sandbox is followed with: index.html with up to
\* MaxLinks anchors, and two more pages.
NavFileSets ==
    {<<WebFile("index.html",
               "<html><head><title>Home</title></head><body>" \o Concat(a)
                   \o "</body></html>"),
       WebFile("about.html",
               "<html><head><title>About</title></head><body><h1>About</h1>"
                   \o "<a href=\"index.html\">Home</a></body></html>"),
       WebFile("http-status.html", "<body><p>Status</p></body>")>> :
        a \in UNION {[1..n -> NavAnchors] : n \in 1..MaxLinks}}

\* CodeResult is mounted on a generated project, its effects have run, and
\* the preview has not been rendered yet.
NavInit ==
    /\ appFiles \in {SomeFiles(fs) : fs \in NavFileSets}
    /\ activePreviewPage = "index.html"
    /\ selectedFile = DefaultSelection(files)
    /\ isGenerating = FALSE
    /\ isRefining = FALSE
    /\ error = NoError
    /\ refinementHistory = <<>>
    /\ genCalls = 0
    /\ refCalls = 0
    /\ sentFiles = NoFiles
    /\ rendered = Rendering(appFiles, FALSE, FALSE, NoError)
    /\ mounted = TRUE
    /\ effectPending = FALSE
    /\ pageBeforeReset = "index.html"
    /\ listenerFiles = appFiles
    /\ toHost = <<>>
    /\ delivered = NoMessage
    /\ uncaught = NoError
    /\ srcDoc = ""
    /\ renders = 0
    /\ FrameIdle
    /\ ServiceIdle

\* The script of the loaded document, as it ran at the load: whether it
\* ran (the document carries it in one piece), and allPages, its constant.
LoadedScript ==
    navScript

\* document.querySelectorAll('a') on the body: the places of its anchors.
Anchors ==
    TagStarts(body, "<a")

\* link.getAttribute('href'), "" for an anchor that has none.
Href(i) ==
    AttrValue(TagText(body, i), "href")

\* A lookup that takes the first page when none has the name.
TargetPageOrFirst(allPages, href) ==
    IF FindFile(allPages, href) > 0 THEN FindFile(allPages, href)
    ELSE IF Len(allPages) > 0 THEN 1 ELSE 0

\* allPages.find(p => p.name === href), as an index (0: undefined).
TargetPage(allPages, href) ==
    FindFile(allPages, href)

\* href && !href.startsWith('http') && !href.startsWith('#') && targetPage
Virtualizes(allPages, href) ==
    /\ href # ""
    /\ ~StartsWith(href, "http")
    /\ ~StartsWith(href, "#")
    /\ TargetPage(allPages, href) > 0

\* The browser's own handling of a click that was not prevented: a link to
\* another document leaves the srcdoc document, a link into the page and an
\* anchor with no href leave it in place.
FollowsLink(href) ==
    href # "" /\ ~StartsWith(href, "#")

\* A click on the anchor at place i of the shown document.  The anchor has
\* the script's listener if it was in the document at the ready point.
linkClick(i) ==
    /\ mounted
    /\ frame = "srcdoc"
    /\ LET href == Href(i)
           script == LoadedScript
           allPages == script.pages
       IN  IF wired /\ script.defined /\ Virtualizes(allPages, href)
           THEN /\ click' = [anchor |-> i, href |-> href, prevented |-> TRUE]
                /\ body' = BodyInner(allPages[TargetPage(allPages, href)].content)
                /\ wired' = FALSE
                /\ shownPage' = href
                /\ toHost' = Append(toHost, ReinitMessage)
                /\ UNCHANGED <<frame, navScript>>
           ELSE /\ click' = [anchor |-> i, href |-> href, prevented |-> FALSE]
                /\ IF FollowsLink(href)
                   THEN /\ frame' = "left"
                        /\ body' = ""
                        /\ wired' = FALSE
                        /\ shownPage' = ""
                        /\ navScript' = NoScript
                   ELSE UNCHANGED <<frame, body, wired, shownPage, navScript>>
                /\ toHost' = toHost
    /\ UNCHANGED <<appFiles, isGenerating, isRefining, error, mounted,
                   selectedFile, activePreviewPage, effectPending,
                   pageBeforeReset, srcDoc, renders, chatVars, listenerFiles,
                   delivered, uncaught, serviceVars>>

NextNav ==
    \/ Render
    \/ \E i \in Anchors : linkClick(i)
    \/ handleMessage
    \/ \E c \in EditContents : handleFileContentChange(c)
    \/ ResetEffect

SpecNav == NavInit /\ [][NextNav]_vars

\* The delivery of a posted message is not put off for ever.
SpecNavLive == SpecNav /\ WF_vars(handleMessage)

(***************************************************************************)
(* Properties of the navigation script (specifications SpecNav and         *)
(* SpecNavLive).                                                           *)
(***************************************************************************)

\* An href that starts with the scheme of an absolute URL.
HasSchemeMarker(href) ==
    \E m \in {"http://", "https://", "mailto:"} : StartsWith(href, m)

\* The page table holds a page of exactly this name.
InPageTable(href) ==
    FindFile(LoadedScript.pages, href) > 0

\* The anchors of the shown body carry the click listener of a script that
\* ran.
ListenersAttached ==
    frame = "srcdoc" /\ wired /\ LoadedScript.defined

\* C11: a click on an anchor (one that carries the listener) whose href is
\* not empty, starts with no scheme marker and no "#", and is the name of a
\* page of the page table, is prevented, puts the body of that page's raw
\* markup in place of the document's body, and posts one message to the
\* host.
C11_Interception ==
    [][\A i \in Anchors :
          (/\ linkClick(i)
           /\ ListenersAttached
           /\ Href(i) # ""
           /\ ~HasSchemeMarker(Href(i))
           /\ ~StartsWith(Href(i), "#")
           /\ InPageTable(Href(i)))
             => /\ click'.prevented
                /\ body' = BodyInner(LoadedScript.pages[
                               FindFile(LoadedScript.pages, Href(i))].content)
                /\ toHost' = Append(toHost, ReinitMessage)]_vars

\* C12: a click on an anchor whose href is empty, starts with a scheme
\* marker or with "#", or names no page of the page table, is not
\* prevented, swaps no body in, and posts nothing to the host.
C12_NotVirtualized ==
    [][\A i \in Anchors :
          (/\ linkClick(i)
           /\ \/ Href(i) = ""
              \/ HasSchemeMarker(Href(i))
              \/ StartsWith(Href(i), "#")
              \/ ~InPageTable(Href(i)))
             => /\ ~click'.prevented
                /\ ~(frame' = "srcdoc" /\ body' # body)
                /\ toHost' = toHost]_vars

\* A link to a page the project does not have was clicked and followed by
\* the browser; nothing was posted.
C12_Witness ==
    /\ click.href = "missing.html"
    /\ ~click.prevented
    /\ frame = "left"
    /\ toHost = <<>>

\* C13: after a virtual swap the anchors of the shown body get the click
\* listener.
C13_ReattachAfterSwap ==
    (frame = "srcdoc" /\ click.prevented) ~> (frame = "srcdoc" /\ wired)

\* C14: when a virtual swap to a page has happened and its message has been
\* delivered, the Active Preview Page is that page.
C14_HostFollowsSwap ==
    (frame = "srcdoc" /\ click.prevented /\ toHost = <<>>)
        => activePreviewPage = shownPage

(***************************************************************************)
(* The service: geminiService.parseJsonResponse and the two calls that use *)
(* it (specification SpecParse).  A JSON value is a record with a tag t:   *)
(* "null", "bool", "num", "str", "arr" (items), "obj" (keys and vals, in   *)
(* the order of the text).                                                 *)
(***************************************************************************)

Undefined == [t |-> "undefined"]

JsonNull == [t |-> "null"]

JsonBool(b) == [t |-> "bool", b |-> b]

JsonNumber(digits) == [t |-> "num", digits |-> digits]

JsonStr(s) == [t |-> "str", s |-> s]

JsonArray(items) == [t |-> "arr", items |-> items]

JsonObject(keys, vals) == [t |-> "obj", keys |-> keys, vals |-> vals]

JsonFail == [ok |-> FALSE, val |-> Undefined, next |-> 0]

\* The white space of the JSON grammar.
IsJsonWhite(c) ==
    c \in {" ", "\t", "\n", "\r"}

\* The first position from i on that holds no white space.
SkipWhite(s, i) ==
    MinOf({j \in i..Len(s) : ~IsJsonWhite(At(s, j))} \cup {Len(s) + 1})

IsDigit(c) ==
    c \in {"0", "1", "2", "3", "4", "5", "6", "7", "8", "9"}

\* The position after the run of digits that starts at i.
DigitsEnd(s, i) ==
    MinOf({j \in i..Len(s) : ~IsDigit(At(s, j))} \cup {Len(s) + 1})

\* A string of the JSON grammar at position i: a string literal with no raw
\* control character, and with the escapes of JSON only (the \u escape is
\* not read).
JsonStringAt(s, i) ==
    LET r == ParseString(s, i)
    IN  IF /\ r.ok
           /\ \A p \in (i + 1)..(r.next - 2) :
                 /\ At(s, p) \notin {"\t", "\f"}
                 /\ IsEscapeStart(s, p)
                      => At(s, p + 1) \in {"\"", "\\", "/", "b", "f", "n", "r", "t"}
        THEN r
        ELSE ParseFail

\* The value a string literal read as r stands for.
JsonStringValue(r) ==
    IF r.ok THEN [ok |-> TRUE, val |-> JsonStr(r.val), next |-> r.next]
    ELSE JsonFail

\* The array whose elements were read as r.
JsonArrayValue(r) ==
    IF r.ok THEN [ok |-> TRUE, val |-> JsonArray(r.val), next |-> r.next]
    ELSE JsonFail

\* The object whose members were read as r.
JsonObjectValue(r) ==
    IF r.ok
    THEN [ok |-> TRUE, val |-> JsonObject(r.val.keys, r.val.vals), next |-> r.next]
    ELSE JsonFail

\* The element v in front of the elements read as rest.
JsonConsElement(v, rest) ==
    IF rest.ok
    THEN [ok |-> TRUE, val |-> <<v.val>> \o rest.val, next |-> rest.next]
    ELSE JsonFail

\* The member k : v in front of the members read as rest.
JsonConsMember(k, v, rest) ==
    IF rest.ok
    THEN [ok |-> TRUE,
          val |-> [keys |-> <<k.val>> \o rest.val.keys,
                   vals |-> <<v.val>> \o rest.val.vals],
          next |-> rest.next]
    ELSE JsonFail

\* A reader of the JSON grammar at position from, for one of three things:
\* "value", a value (white space first); "elements", the elements of an
\* array (after "[" or ","); "members", the members of an object (after "{"
\* or ",").
RECURSIVE JsonAt(_, _, _)

\* A value that starts with the character c at position i.
JsonValueFrom(s, i, c) ==
    IF c = "\"" THEN JsonStringValue(JsonStringAt(s, i))
    ELSE IF c = "["
    THEN IF At(s, SkipWhite(s, i + 1)) = "]"
         THEN [ok |-> TRUE, val |-> JsonArray(<<>>),
               next |-> SkipWhite(s, i + 1) + 1]
         ELSE JsonArrayValue(JsonAt("elements", s, i + 1))
    ELSE IF c = "{"
    THEN IF At(s, SkipWhite(s, i + 1)) = "}"
         THEN [ok |-> TRUE, val |-> JsonObject(<<>>, <<>>),
               next |-> SkipWhite(s, i + 1) + 1]
         ELSE JsonObjectValue(JsonAt("members", s, i + 1))
    ELSE IF StartsWithAt(s, i, "null")
    THEN [ok |-> TRUE, val |-> JsonNull, next |-> i + 4]
    ELSE IF StartsWithAt(s, i, "true")
    THEN [ok |-> TRUE, val |-> JsonBool(TRUE), next |-> i + 4]
    ELSE IF StartsWithAt(s, i, "false")
    THEN [ok |-> TRUE, val |-> JsonBool(FALSE), next |-> i + 5]
    ELSE IF IsDigit(c)
    THEN [ok |-> TRUE, val |-> JsonNumber(SubSeq(s, i, DigitsEnd(s, i) - 1)),
          next |-> DigitsEnd(s, i)]
    ELSE JsonFail

\* The elements that start with the element v, which is followed, at
\* position j, by "]" or by "," and more elements.
JsonElementsFrom(s, v, j) ==
    IF ~v.ok THEN JsonFail
    ELSE IF At(s, j) = "]" THEN [ok |-> TRUE, val |-> <<v.val>>, next |-> j + 1]
    ELSE IF At(s, j) = "," THEN JsonConsElement(v, JsonAt("elements", s, j + 1))
    ELSE JsonFail

\* The members that start with the member k : v, which is followed, at
\* position j, by "}" or by "," and more members.
JsonMembersFrom(s, k, v, j) ==
    IF ~k.ok \/ ~v.ok THEN JsonFail
    ELSE IF At(s, j) = "}"
    THEN [ok |-> TRUE, val |-> [keys |-> <<k.val>>, vals |-> <<v.val>>],
          next |-> j + 1]
    ELSE IF At(s, j) = "," THEN JsonConsMember(k, v, JsonAt("members", s, j + 1))
    ELSE JsonFail

\* The value of the member whose key was read as k: it follows the colon.
JsonMemberValue(s, k, colon) ==
    IF k.ok /\ At(s, colon) = ":" THEN JsonAt("value", s, colon + 1)
    ELSE JsonFail

\* The members that start with the key read as k, whose value was read as v.
JsonMembersAfterKey(s, k, v) ==
    JsonMembersFrom(s, k, v, SkipWhite(s, v.next))

\* The members that start with the key read as k.
JsonMembersWithKey(s, k) ==
    JsonMembersAfterKey(s, k, JsonMemberValue(s, k, SkipWhite(s, k.next)))

\* The elements that start with the element read as v.
JsonElementsWith(s, v) ==
    JsonElementsFrom(s, v, SkipWhite(s, v.next))

\* The value at position i, which holds no white space.
JsonValueAt(s, i) ==
    JsonValueFrom(s, i, At(s, i))

JsonAt(what, s, from) ==
    IF what = "value" THEN JsonValueAt(s, SkipWhite(s, from))
    ELSE IF what = "elements" THEN JsonElementsWith(s, JsonAt("value", s, from))
    ELSE JsonMembersWithKey(s, JsonStringAt(s, SkipWhite(s, from)))

\* The value v read at the start of text is the whole of text, or
\* JSON.parse throws a SyntaxError (ok is FALSE).
JsonWhole(text, v) ==
    IF v.ok /\ SkipWhite(text, v.next) = Len(text) + 1
    THEN [ok |-> TRUE, val |-> v.val]
    ELSE [ok |-> FALSE, val |-> Undefined]

\* JSON.parse(text)
JsonParse(text) ==
    JsonWhole(text, JsonAt("value", text, 1))

\* key in value, for a key that is no index and no property of every array
\* or object: "true", "false", or "TypeError" for a value that is no object.
KeyIn(key, value) ==
    IF value.t \notin {"obj", "arr"} THEN "TypeError"
    ELSE IF value.t = "obj" /\ \E i \in 1..Len(value.keys) : value.keys[i] = key
         THEN "true"
         ELSE "false"

\* value[key] of an object: the value of the last member of that name.
Property(value, key) ==
    IF value.t = "obj" /\ \E i \in 1..Len(value.keys) : value.keys[i] = key
    THEN value.vals[MaxOf({i \in 1..Len(value.keys) : value.keys[i] = key})]
    ELSE Undefined

generationResponseSchema == [required |-> <<"files">>]

\* A refinement schema that requires the files only.
refinementResponseSchemaFilesOnly == [required |-> <<"files">>]

refinementResponseSchema == [required |-> <<"files", "explanation">>]

\* schema.required.every(key => key in value)
HasRequired(schema, value) ==
    IF value.t \notin {"obj", "arr"} THEN "TypeError"
    ELSE IF \A n \in 1..Len(schema.required) :
               KeyIn(schema.required[n], value) = "true"
         THEN "true"
         ELSE "false"

\* The fence of a Markdown code block.
Fence == BackTick \o BackTick \o BackTick

\* text.match(/```json\s*([\s\S]*?)\s*```/): group 1 of the first match.
\* The match starts at the first "```json" that a "```" follows; group 1
\* starts after the white space and ends before the white space that the
\* first "```" from there on comes after.
JsonMatch(text) ==
    LET open == IndexOf(text, Fence \o "json", 1)
        start == MinOf({j \in (open + 7)..Len(text) : ~IsSpace(At(text, j))}
                          \cup {Len(text) + 1})
        close == IndexOf(text, Fence, start)
        last == MaxOf({j \in start..(close - 1) : ~IsSpace(At(text, j))}
                         \cup {start - 1})
    IN  IF open = 0 \/ close = 0 THEN [found |-> FALSE, group1 |-> ""]
        ELSE [found |-> TRUE, group1 |-> SubSeq(text, start, last)]

Returned(value) == [status |-> "returned", value |-> value]

Thrown(message) == [status |-> "thrown", value |-> [t |-> "error", message |-> message]]

\* The end of one try block: the value parsed is returned when it has the
\* required keys; a SyntaxError or a TypeError is caught.
ReturnedIfValid(schema, parsed) ==
    IF parsed.ok /\ HasRequired(schema, parsed.val) = "true"
    THEN Returned(parsed.val)
    ELSE Thrown("Could not parse a valid object from the model's response.")

\* The second try block: group 1 of the match is parsed.
ParsedFromJsonMarkdown(schema, jsonMatch) ==
    IF jsonMatch.found
    THEN ReturnedIfValid(schema, JsonParse(jsonMatch.group1))
    ELSE Thrown("Could not parse a valid object from the model's response.")

\* The first of two results that is a return.
FirstReturned(first, second) ==
    IF first.status = "returned" THEN first ELSE second

\* geminiService.parseJsonResponse: what it returns or throws.
parseJsonResponse(text, schema) ==
    FirstReturned(ReturnedIfValid(schema, JsonParse(text)),
                  ParsedFromJsonMarkdown(schema, JsonMatch(text)))

\* text.trim()
Trim(text) ==
    LET inked == {j \in 1..Len(text) : ~IsSpace(At(text, j))}
    IN  IF inked = {} THEN "" ELSE SubSeq(text, MinOf(inked), MaxOf(inked))

(***************************************************************************)
(* Inputs of the service specification: the texts the model may answer     *)
(* with.  A text is a body, as it is or inside other text.                 *)
(***************************************************************************)

OneFile == "{\"name\":\"index.html\",\"content\":\"<p>hi</p>\"}"

ResponseBodies ==
    { "{\"files\":[" \o OneFile \o "]}",
      "{\"files\":[" \o OneFile \o "],\"explanation\":\"Judul diubah.\"}",
      "{ \"explanation\" : \"Judul diubah.\", \"files\" : [ ] }",
      "{\"explanation\":\"Judul diubah.\"}",
      "{\"files\":\"index.html\"}",
      "{\"files\":7,\"explanation\":\"Judul diubah.\"}",
      "{\"files\":null,\"explanation\":\"Judul diubah.\"}",
      "{\"files\":[{\"name\":\"index.html\"}],\"explanation\":\"Judul diubah.\"}",
      "{\"files\":[" \o OneFile,
      "[" \o OneFile \o "]",
      "\"files\"",
      "null",
      "7" }

\* A body that is JSON as a whole and holds a fenced block in a string.
FenceInString ==
    "{\"explanation\":\"see " \o Fence \o "json {} " \o Fence \o "\"}"

ResponseTexts ==
    UNION {{ b,
             "\n" \o b \o "\n",
             Fence \o "json\n" \o b \o "\n" \o Fence,
             "Here is the result:\n" \o Fence \o "json" \o b \o Fence \o "\nDone.",
             Fence \o "json\n" \o b,
             Fence \o "\n" \o b \o "\n" \o Fence,
             Fence \o "json\n{}\n" \o Fence \o "\n" \o Fence \o "json\n" \o b
                 \o "\n" \o Fence } : b \in ResponseBodies}
        \cup {FenceInString, ""}

\* return parsed.files, or the error of parseJsonResponse goes on.
FilesOf(parsed) ==
    IF parsed.status = "returned"
    THEN [status |-> "returned", parsed |-> parsed.value,
          value |-> Property(parsed.value, "files")]
    ELSE [status |-> "thrown", parsed |-> Undefined, value |-> parsed.value]

\* return parsed, or the error of parseJsonResponse goes on.
WholeOf(parsed) ==
    IF parsed.status = "returned"
    THEN [status |-> "returned", parsed |-> parsed.value, value |-> parsed.value]
    ELSE [status |-> "thrown", parsed |-> Undefined, value |-> parsed.value]

\* One call is followed.  geminiService.generateWebAppCode from the
\* response on: the text is
\* trimmed and parsed, and the "files" of the value go to the caller; an
\* error goes to the caller as it is.
generateWebAppCode(text) ==
    /\ call = ""
    /\ rawText' = Trim(text)
    /\ call' = "generate"
    /\ response' = FilesOf(parseJsonResponse(Trim(text), generationResponseSchema))
    /\ UNCHANGED <<appFiles, isGenerating, isRefining, error, mounted,
                   selectedFile, activePreviewPage, effectPending,
                   pageBeforeReset, srcDoc, renders, chatVars, messageVars,
                   frameVars>>

\* geminiService.refineWebAppCode from the response on: the text is trimmed
\* and parsed, and the value goes to the caller.
refineWebAppCode(text) ==
    /\ call = ""
    /\ rawText' = Trim(text)
    /\ call' = "refine"
    /\ response' = WholeOf(parseJsonResponse(Trim(text), refinementResponseSchema))
    /\ UNCHANGED <<appFiles, isGenerating, isRefining, error, mounted,
                   selectedFile, activePreviewPage, effectPending,
                   pageBeforeReset, srcDoc, renders, chatVars, messageVars,
                   frameVars>>

NextParse ==
    \/ \E text \in ResponseTexts : generateWebAppCode(text)
    \/ \E text \in ResponseTexts : refineWebAppCode(text)

SpecParse == HostInit /\ [][NextParse]_vars

(***************************************************************************)
(* Claims about the service (under SpecParse).                             *)
(***************************************************************************)

\* The top-level keys a response must have, by the call.
RequiredKeys ==
    IF call = "refine" THEN {"files", "explanation"} ELSE {"files"}

\* v is an object with every required top-level key.
HasEveryRequiredKey(v) ==
    /\ v.t = "obj"
    /\ \A k \in RequiredKeys : \E i \in 1..Len(v.keys) : v.keys[i] = k

\* The text parses as JSON, to a value with every required key.
ParsesToValid(text) ==
    JsonParse(text).ok /\ HasEveryRequiredKey(JsonParse(text).val)

\* The call returned the value of text.
ReturnedValueOf(text) ==
    response.status = "returned" /\ response.parsed = JsonParse(text).val

\* The first fenced json block of the response text, "" when there is none.
FirstFencedBlock ==
    IF JsonMatch(rawText).found THEN JsonMatch(rawText).group1 ELSE ""

\* C18: parseJsonResponse returns the value of the whole response text when
\* that parses as JSON and has every required top-level key ("files"; for a
\* refinement also "explanation"); otherwise the value of the first fenced
\* json block when that parses and has every required key; in every other
\* case it throws and returns nothing.
C18_ParsingOrder ==
    call # "" =>
        IF ParsesToValid(rawText) THEN ReturnedValueOf(rawText)
        ELSE IF ParsesToValid(FirstFencedBlock)
             THEN ReturnedValueOf(FirstFencedBlock)
             ELSE response.status = "thrown" /\ response.parsed = Undefined

\* A refinement whose text is no JSON as a whole returned the value of its
\* fenced block.
C18_Witness ==
    /\ call = "refine"
    /\ ~JsonParse(rawText).ok
    /\ rawText # FirstFencedBlock
    /\ response.status = "returned"
    /\ response.parsed = JsonParse(FirstFencedBlock).val

\* v is a sequence of {name, content} pairs.
IsFileSequence(v) ==
    /\ v.t = "arr"
    /\ \A i \in 1..Len(v.items) :
          /\ v.items[i].t = "obj"
          /\ Property(v.items[i], "name").t = "str"
          /\ Property(v.items[i], "content").t = "str"

\* C19: a generation or refinement call whose response has a "files" value
\* that is no sequence of {name, content} pairs fails with an error: a call
\* that returned has such a sequence as its "files".
C19_FilesShape ==
    response.status = "returned"
        => IsFileSequence(Property(response.parsed, "files"))

(***************************************************************************)
(* Properties of the host's message handling and of its requests           *)
(* (specification Spec).                                                   *)
(***************************************************************************)

\* C15: the host's handling of a "navigate" message makes the last segment
\* of the path the Active Preview Page if the FileSet current at delivery
\* has a file of that name, and else leaves the page, the selection and the
\* FileSet as they are.
C15_NavigateByCurrentFiles ==
    [][(handleMessage /\ IsNavigate(Head(toHost)))
          => IF HasFile(files, LastSegment(Head(toHost).page))
             THEN activePreviewPage' = LastSegment(Head(toHost).page)
             ELSE UNCHANGED <<activePreviewPage, selectedFile, appFiles>>]_vars

\* C16: at most one generation call and at most one refinement call is
\* outstanding.
C16_SingleInFlight ==
    genCalls <= 1 /\ refCalls <= 1

\* C17: the handling of a message leaves the FileSet as it is, and the
\* handling of a "virtual-nav-reinit" leaves all of the host's state as it
\* is.
C17_MessagesKeepFiles ==
    [][handleMessage
          => /\ appFiles' = appFiles
             /\ (Head(toHost).type = "virtual-nav-reinit"
                    => UNCHANGED <<appFiles, isGenerating, isRefining, error,
                                   mounted, selectedFile, activePreviewPage,
                                   effectPending, refinementHistory>>)]_vars

\* A "virtual-nav-reinit" that names a page of the FileSet was handled, and
\* the Active Preview Page is another page.
C17_Witness ==
    /\ delivered = "virtual-nav-reinit"
    /\ toHost = <<>>
    /\ HasFile(files, "about.html")
    /\ activePreviewPage = "index.html"

\* C20: a refinement call that fails leaves the FileSet, the Active Preview
\* Page and the selection as they are, records the error, appends one
\* assistant message that carries the error to the transcript, and clears
\* the busy flag.
C20_RefinementFailure ==
    [][\A m \in ErrorMessages :
          RefineRejected(m)
             => /\ UNCHANGED <<appFiles, activePreviewPage, selectedFile>>
                /\ error' # NoError
                /\ Len(refinementHistory') = Len(refinementHistory) + 1
                /\ SubSeq(refinementHistory', 1, Len(refinementHistory))
                       = refinementHistory
                /\ refinementHistory'[Len(refinementHistory')].role = "assistant"
                /\ Includes(refinementHistory'[Len(refinementHistory')].content, m)
                /\ ~isRefining']_vars

\* A refinement failed: the transcript ends with the user's message and the
\* assistant's message about the error, the error is recorded, and the busy
\* flag is clear.
C20_Witness ==
    /\ Len(refinementHistory) = 2
    /\ refinementHistory[1] = UserMessage(RefinementPrompt)
    /\ refinementHistory[2].role = "assistant"
    /\ \E m \in ErrorMessages : Includes(refinementHistory[2].content, m)
    /\ error # NoError
    /\ ~isRefining
    /\ refCalls = 0

(***************************************************************************)
(* The names of the FileSet (specification SpecNames): the collaborators   *)
(* return any sequence of files, and nothing between the response and      *)
(* setAppFiles looks at the names.                                         *)
(***************************************************************************)

\* What a collaborator may return: up to MaxFiles files, in any order, two
\* of the same name among them.
ReturnedFileSets ==
    UNION {[1..n -> {WebFile(m, ReturnedContent(m)) : m \in HostNames}] :
               n \in 0..MaxFiles}

NextNames ==
    \/ handleGenerate
    \/ render
    \/ \E fs \in ReturnedFileSets : GenerateResolved(fs)
    \/ GenerateRejected
    \/ ResetEffect
    \/ handleRefine
    \/ \E fs \in ReturnedFileSets : RefineResolved(fs)
    \/ \E c \in EditContents : handleFileContentChange(c)
    \/ \E n \in HostNames : setSelectedFile(n)

SpecNames == HostInit /\ [][NextNames]_vars

\* C21: in every reachable host state no two files of the FileSet share a
\* name (a returned sequence with two files of one name is rejected or
\* collapsed before it becomes the FileSet).
C21_UniqueNames ==
    appFiles # NoFiles
        => \A i, j \in 1..Len(files) : i # j => files[i].name # files[j].name

(***************************************************************************)
(* Properties of the Active Edit Selection and of local edits (host        *)
(* specification Spec).                                                    *)
(***************************************************************************)

\* The name the selection falls back to in a non-empty FileSet.
FallbackName(fs) ==
    IF \E i \in 1..Len(fs) : fs[i].name = "index.html" THEN "index.html"
    ELSE fs[1].name

\* C22: once the reset effect has run, the Active Edit Selection names a
\* file of the current non-empty FileSet; when CodeResult mounts, and when
\* the reset effect finds that no file has the selected name, the selection
\* becomes "index.html" if there is such a file, else the name of the first
\* file.
C22_SelectionExists ==
    /\ []((mounted /\ ~effectPending /\ Len(files) > 0)
            => HasFile(files, selectedFile))
    /\ [][(~mounted /\ mounted' /\ Len(files') > 0)
            => selectedFile' = FallbackName(files')]_vars
    /\ [][(ResetEffect /\ Len(files) > 0 /\ ~HasFile(files, selectedFile))
            => selectedFile' = FallbackName(files)]_vars

\* After a refinement replaced the FileSet by one without "index.html", the
\* reset effect has run and the selection is the first file.
C22_Witness ==
    /\ mounted
    /\ ~effectPending
    /\ Len(refinementHistory) = 2
    /\ Len(files) > 0
    /\ ~HasFile(files, "index.html")
    /\ selectedFile = files[1].name

\* C23: choosing a file for editing and editing its content leave the
\* Active Preview Page as it is, and the handling of a "navigate" message
\* leaves the Active Edit Selection as it is: a step that changes the one
\* is not a step of the other's operations.
C23_SelectorsIndependent ==
    [][/\ (activePreviewPage' # activePreviewPage)
             => ~(\/ \E n \in HostNames : setSelectedFile(n)
                  \/ \E c \in EditContents : handleFileContentChange(c))
       /\ (selectedFile' # selectedFile)
             => ~(handleMessage /\ Head(toHost).type = "navigate")]_vars

\* "about.html" was chosen and edited while the preview shows "index.html".
C23_Witness ==
    /\ mounted
    /\ selectedFile = "about.html"
    /\ activePreviewPage = "index.html"
    /\ HasFile(files, "index.html")
    /\ HasFile(files, "about.html")
    /\ files[FindFile(files, "about.html")].content \in EditContents

\* "about.html" is previewed after a "navigate" message while "index.html"
\* stays chosen for editing.
C23_WitnessNavigate ==
    /\ mounted
    /\ delivered = "navigate"
    /\ activePreviewPage = "about.html"
    /\ selectedFile = "index.html"

(***************************************************************************)
(* The host's message listener and any message a window may post to it     *)
(* (specification SpecInbox): CodeResult has mounted on a generated        *)
(* FileSet, and its effects have not run yet.                              *)
(***************************************************************************)

\* The messages of the host specification, a "navigate" with no page, and a
\* "navigate" whose page is the number 7.
InboundMessages ==
    Messages \cup {[type |-> "navigate"],
                   [type |-> "navigate", page |-> "7", typeofPage |-> "number"]}

InboxInit ==
    /\ appFiles \in {SomeFiles(fs) : fs \in HostFileSets}
    /\ activePreviewPage = "index.html"
    /\ selectedFile = DefaultSelection(files)
    /\ isGenerating = FALSE
    /\ isRefining = FALSE
    /\ error = NoError
    /\ refinementHistory = <<>>
    /\ genCalls = 0
    /\ refCalls = 0
    /\ sentFiles = NoFiles
    /\ rendered = Rendering(appFiles, FALSE, FALSE, NoError)
    /\ mounted = TRUE
    /\ effectPending = TRUE
    /\ pageBeforeReset = ""
    /\ listenerFiles = NoFiles
    /\ toHost = <<>>
    /\ delivered = NoMessage
    /\ uncaught = NoError
    /\ srcDoc = ""
    /\ renders = 0
    /\ FrameIdle
    /\ ServiceIdle

NextInbox ==
    \/ ResetEffect
    \/ \E msg \in InboundMessages : postMessage(msg)
    \/ handleMessage
    \/ messageUnheard
    \/ \E c \in EditContents : handleFileContentChange(c)
    \/ \E n \in HostNames : setSelectedFile(n)

SpecInbox == InboxInit /\ [][NextInbox]_vars

\* C24: the handling of an inbound message, a "navigate" with no page or
\* with a page that is no string among them, throws no error.
C24_HandlerNeverThrows ==
    uncaught = NoError

(***************************************************************************)
(* What inlining leaves alone (specification SpecCompose).  The elements   *)
(* that are inlined are found as an HTML reader finds them: the link tags  *)
(* whose href, and the script elements whose src, name a file of the       *)
(* FileSet.                                                                *)
(***************************************************************************)

\* The places of the markup s that the elements to inline take up.
InlinedPlaces(s) ==
    UNION ({i..IndexOf(s, ">", i) :
               i \in {j \in TagStarts(s, "<link") :
                         /\ EndsWith(AttrValue(TagText(s, j), "href"), ".css")
                         /\ HasFile(files, AttrValue(TagText(s, j), "href"))}}
           \cup
           {i..(IndexOf(s, ">", i) + Len("</script>")) :
               i \in {j \in TagStarts(s, "<script") :
                         /\ StartsWithAt(s, IndexOf(s, ">", j) + 1, "</script>")
                         /\ EndsWith(AttrValue(TagText(s, j), "src"), ".js")
                         /\ HasFile(files, AttrValue(TagText(s, j), "src"))}})

\* The places where a piece of s outside the inlined elements, which take
\* up places, starts.  The markup is cut at its first "</body>" as well,
\* where the navigation script goes in.
PieceStarts(s, places) ==
    {k \in (1..Len(s)) \ places :
        k = 1 \/ k - 1 \in places \/ k = IndexOf(s, "</body>", 1)}

\* The piece of s that starts at k: it ends before the next inlined element
\* or the next start.
PieceAt(s, places, starts, k) ==
    SubSeq(s, k, MinOf({m \in k..Len(s) : m + 1 \in places \cup starts}
                           \cup {Len(s)}))

\* The pieces of s that start at the places in rest are in doc from the
\* place from on, one after the other.
RECURSIVE PiecesFollow(_, _, _, _, _, _)
PiecesFollow(doc, s, places, starts, rest, from) ==
    IF rest = {} THEN TRUE
    ELSE LET piece == PieceAt(s, places, starts, MinOf(rest))
             at == IndexOf(doc, piece, from)
         IN  IF at = 0 THEN FALSE
             ELSE PiecesFollow(doc, s, places, starts, rest \ {MinOf(rest)},
                               at + Len(piece))

\* The pieces of s outside the inlined elements are in doc, in the order
\* of s.
PiecesKept(doc, s, places, starts) ==
    PiecesFollow(doc, s, places, starts, starts, 1)

\* C25: every piece of the page's markup outside the link and script
\* elements that are inlined is in the composed document as it was written,
\* and the pieces are in the order of the markup (stated for FileSets with
\* NoBodyTagInAssets).
C25_OnlyElementReplaced ==
    (renders >= 1 /\ PageFound /\ NoBodyTagInAssets)
        => PiecesKept(srcDoc, Markup, InlinedPlaces(Markup),
                      PieceStarts(Markup, InlinedPlaces(Markup)))

(***************************************************************************)
(* The life of a generation and of a refinement request (host              *)
(* specification Spec).                                                    *)
(***************************************************************************)

\* C26: an accepted generate request sets the generating flag and clears
\* the FileSet, the error and the transcript; the end of a call clears the
\* flag; a call that returns makes the returned files the FileSet, with no
\* error recorded; a call that fails records an error, and the FileSet
\* stays absent.
C26_GenerationLifecycle ==
    [][/\ (handleGenerate /\ genCalls' = genCalls + 1)
             => /\ isGenerating'
                /\ appFiles' = NoFiles
                /\ error' = NoError
                /\ refinementHistory' = <<>>
       /\ \A fs \in HostFileSets :
             GenerateResolved(fs)
                => /\ ~isGenerating'
                   /\ appFiles' = SomeFiles(fs)
                   /\ error' = NoError
       /\ GenerateRejected
             => /\ ~isGenerating'
                /\ error' # NoError
                /\ appFiles' = NoFiles]_vars

\* A file of the FileSet holds text the user typed into the code view.
HoldsAnEdit(af) ==
    af # NoFiles /\ \E i \in 1..Len(af[1]) : af[1][i].content \in EditContents

\* C27: a refinement call is given the FileSet of the moment the request
\* is accepted, and no later event hands it another; when a call returns,
\* the FileSet is exactly the returned sequence, so that no text typed in
\* the meantime is left in it, and exactly one assistant message, the
\* explanation, is appended to the transcript.
C27_RefinementReplaces ==
    [][/\ (refCalls' = refCalls + 1 /\ handleRefine)
             => /\ sentFiles' = appFiles
                /\ appFiles' = appFiles
       /\ (sentFiles' # sentFiles /\ sentFiles' # NoFiles)
             => (refCalls' = refCalls + 1 /\ handleRefine)
       /\ (refCalls' = refCalls - 1)
             => \A fs \in HostFileSets :
                   RefineResolved(fs)
                      => /\ appFiles' = SomeFiles(fs)
                         /\ ~HoldsAnEdit(appFiles')
                         /\ Len(refinementHistory') = Len(refinementHistory) + 1
                         /\ SubSeq(refinementHistory', 1, Len(refinementHistory))
                               = refinementHistory
                         /\ refinementHistory'[Len(refinementHistory')]
                               = AssistantMessage(Explanation)]_vars

\* A refinement has returned: the transcript is the user's request and the
\* explanation, no call is outstanding, and the FileSet is a returned one.
C27_Witness ==
    /\ Len(refinementHistory) = 2
    /\ refinementHistory[1] = UserMessage(RefinementPrompt)
    /\ refinementHistory[2] = AssistantMessage(Explanation)
    /\ refCalls = 0
    /\ ~isRefining
    /\ appFiles # NoFiles
    /\ ~HoldsAnEdit(appFiles)

\* A text typed into the code view while a refinement call is outstanding.
C27_WitnessEdit ==
    /\ refCalls > 0
    /\ isRefining
    /\ HoldsAnEdit(appFiles)

(***************************************************************************)
(* An edit in the code view (specification SpecNames: the FileSet is any   *)
(* sequence of files a collaborator returned).                             *)
(***************************************************************************)

\* The files of new are those of old, in their places, but for the file at
\* place k, which has the content text.
OneFileChanged(old, new, k, text) ==
    /\ Len(new) = Len(old)
    /\ \A i \in 1..Len(old) : new[i].name = old[i].name
    /\ new[k].content = text
    /\ \A i \in 1..Len(old) : i # k => new[i].content = old[i].content

\* C28: after an edit the FileSet has the same number of files, the same
\* names and the same order as before; one file, the file named by the
\* Active Edit Selection, has the new text, and the content of every
\* other file is as it was.
C28_EditChangesOneFile ==
    [][\A c \in EditContents :
          (handleFileContentChange(c) /\ HasFile(files, selectedFile))
             => \E k \in 1..Len(files) :
                   /\ files[k].name = selectedFile
                   /\ OneFileChanged(files, appFiles'[1], k, c)]_vars

(***************************************************************************)
(* The two busy flags (host specification Spec).                           *)
(***************************************************************************)

SpecLive ==
    /\ Spec
    /\ WF_vars(Next)
    /\ SF_vars(handleGenerate)
    /\ SF_vars(handleRefine)

\* A generation call has failed: no FileSet, an error, not generating.
GenerationFailed ==
    /\ appFiles = NoFiles
    /\ error # NoError
    /\ ~isGenerating

\* C30: after a failed generation the user's actions lead to a state in
\* which a generation call is outstanding or a FileSet is present.
C30_Recovery ==
    GenerationFailed ~> (genCalls > 0 \/ appFiles # NoFiles)

\* With no call outstanding, no step leaves the state of a failed
\* generation: there is no sequence of actions for C30 to speak of.
FailedForGood ==
    [][(GenerationFailed /\ genCalls = 0) => (GenerationFailed /\ genCalls = 0)']_vars

====
